---- MODULE Spec2Model ----
(***************************************************************************)
(* Model of the statistics synchronisation routine retrieveChannelShorts   *)
(* (api/src/services/youtube.service.ts, lines 375-561) together with the  *)
(* YouTubeService helpers it calls and the two store tables it reads and   *)
(* writes, youtube_videos and youtube_video_stats.                         *)
(*                                                                         *)
(* A sync run is one HTTP request.  Requests are served concurrently: the  *)
(* handler is an async function, so another request can run at every       *)
(* await.  Each await on the store is one step of the model; the code      *)
(* between two awaits is executed atomically with the store operation it   *)
(* leads to.  A store operation either succeeds, returns an error result   *)
(* ({data: null, error}) or throws.                                        *)
(*                                                                         *)
(* Time is the wall clock in milliseconds, as read by `new Date()`.  Every *)
(* evaluation of `new Date()` is a separate reading of the clock; the      *)
(* clock is assumed not to run backwards, and the variable clock holds its *)
(* latest reading.                                                         *)
(*                                                                         *)
(* The tables outlive a request: a behaviour starts from one of a few      *)
(* stores that earlier runs of the same routine leave behind.              *)
(*                                                                         *)
(* Numbers that the code computes by floating-point division are kept as   *)
(* exact fractions [num, den].                                             *)
(***************************************************************************)
EXTENDS Integers, Sequences, FiniteSets, TLC

\* ---------------------------------------------------------------- bounds
MaxRecords == 1     \* detail records fetched by all runs of one behaviour
MaxClock   == 1     \* last value of the millisecond clock
MaxPairRecords == 2 \* detail records fetched by all runs of a behaviour of SpecPair
MaxEmbeddings  == 2 \* embedding ids generated in one behaviour
MaxItems == 3       \* ids passed to one call of filterShorts
MaxIds   == 101     \* ids passed to one call of getVideoDetails

\* ------------------------------------------------------------- constants
MsPerHour       == 1000 * 60 * 60
MsPerDay        == 1000 * 60 * 60 * 24
HoursPerDay     == 24
BatchSize       == 50
ShortSeconds    == 60
DefaultSyncCount == 1

Runs     == {1, 2}             \* requests that can be in flight together
VideoIds == {"v1", "v2"}
Outcomes == {"ok", "error", "throw"}

Null     == [null |-> TRUE]    \* JavaScript null / undefined, SQL NULL
NullTime == 0 - 1              \* a timestamp column that holds NULL
Missing  == 0 - 1              \* a statistics field absent from the API item

\* ------------------------------------------------------------- fractions
Rat(n, d) == [num |-> n, den |-> d]

\* a / b for fractions a and b
RatDiv(a, b) == Rat(a.num * b.den, a.den * b.num)

\* JavaScript truthiness of a number-or-null value: null and 0 are falsy
Truthy(x) == x # Null /\ x.num # 0

\* `x || null` for a fraction
OrNull(x) == IF Truthy(x) THEN x ELSE Null

\* ------------------------------------------------------ video platform API
\* statistics objects the platform can report for a video: v1 has been watched,
\* v2 is new and may come without any statistics
RawStatistics(id) ==
  IF id = "v1"
  THEN { [viewCount |-> 10, likeCount |-> 7, commentCount |-> 3, favoriteCount |-> 1],
         [viewCount |-> 15, likeCount |-> 9, commentCount |-> 4, favoriteCount |-> 2] }
  ELSE { [viewCount |-> Missing, likeCount |-> Missing, commentCount |-> Missing, favoriteCount |-> Missing],
         [viewCount |-> 10, likeCount |-> 7, commentCount |-> 3, favoriteCount |-> 1] }

\* snippet.publishedAt of each video, as milliseconds on the model's clock
PublishedAt(id) == IF id = "v1" THEN 0 - 2 * MsPerDay ELSE 0

\* parseInt(x || '0')
ParseCount(x) == IF x = Missing THEN 0 ELSE x

\* consecutive batches of at most BatchSize ids
RECURSIVE Batches(_)
Batches(ids) ==
  IF Len(ids) = 0 THEN <<>>
  ELSE IF Len(ids) <= BatchSize THEN << ids >>
  ELSE << SubSeq(ids, 1, BatchSize) >> \o Batches(SubSeq(ids, BatchSize + 1, Len(ids)))

RECURSIVE Concat(_, _, _)
Concat(batches, failed, i) ==
  IF i > Len(batches) THEN <<>>
  ELSE (IF i \in failed THEN <<>> ELSE batches[i]) \o Concat(batches, failed, i + 1)

\* variant: the first failing request ends the fetch
getVideoDetails_StopsAtFailure(videoIds, failed) ==
  LET batches == Batches(videoIds)
      bad     == failed \cap DOMAIN batches
      last    == IF bad = {} THEN Len(batches)
                 ELSE (CHOOSE i \in bad : \A j \in bad : i <= j) - 1
  IN  Concat(SubSeq(batches, 1, last), {}, 1)

\* getVideoDetails: the items of every batch whose request did not fail
getVideoDetails(videoIds, failed) == Concat(Batches(videoIds), failed, 1)

\* a duration string is a sequence of tokens: a letter, or a maximal run of
\* digits; PT4M13S is << "P", "T", "4", "M", "13", "S" >>
PT0S == << "P", "T", "0", "S" >>

\* contentDetails.duration of each video: v1, v2 and v3 are the videos of the
\* channel, of 30, 60 and 61 seconds; the others are further answers of the
\* platform: PT60S, PT61S, PT4M13S, PT1H, no duration, the empty string, P1D
\* (a day-long video: no time part) and PT
ContentDuration(id) ==
  CASE id = "v1" -> << "P", "T", "30", "S" >>
    [] id = "v2" -> << "P", "T", "1", "M" >>
    [] id = "v3" -> << "P", "T", "1", "M", "1", "S" >>
    [] id = "d60" -> << "P", "T", "60", "S" >>
    [] id = "d61" -> << "P", "T", "61", "S" >>
    [] id = "d253" -> << "P", "T", "4", "M", "13", "S" >>
    [] id = "d3600" -> << "P", "T", "1", "H" >>
    [] id = "dEmpty" -> << >>
    [] id = "dDay" -> << "P", "1", "D" >>
    [] id = "dPT" -> << "P", "T" >>
    [] OTHER -> Null

\* parseInt of a run of digits
parseInt(digits) ==
  CASE digits = "0" -> 0 [] digits = "1" -> 1 [] digits = "4" -> 4
    [] digits = "13" -> 13 [] digits = "30" -> 30 [] digits = "60" -> 60
    [] digits = "61" -> 61

IsDigits(token) == token \in {"0", "1", "4", "13", "30", "60", "61"}

\* (?:(\d+)U)? tried at position k of the string: the digits captured, or
\* Missing when the group matches nothing
Group(duration, k, unit) ==
  IF k + 1 <= Len(duration) /\ IsDigits(duration[k]) /\ duration[k + 1] = unit
  THEN parseInt(duration[k])
  ELSE Missing

\* lines 201-210: /PT(?:(\d+)H)?(?:(\d+)M)?(?:(\d+)S)?/ at the first PT of the
\* string, a group that matches nothing counting as 0; 0 when there is no PT
parseDuration(duration) ==
  LET starts == { i \in 1 .. (Len(duration) - 1) :
                    duration[i] = "P" /\ duration[i + 1] = "T" }
  IN  IF starts = {} THEN 0
      ELSE LET i  == CHOOSE k \in starts : \A o \in starts : k <= o
               h  == Group(duration, i + 2, "H")
               kM == IF h = Missing THEN i + 2 ELSE i + 4
               m  == Group(duration, kM, "M")
               kS == IF m = Missing THEN kM ELSE kM + 2
               sec == Group(duration, kS, "S")
           IN  ParseCount(h) * 3600 + ParseCount(m) * 60 + ParseCount(sec)

\* line 100: item.contentDetails.duration || 'PT0S'
DurationOrDefault(duration) ==
  IF duration = Null \/ duration = << >> THEN PT0S ELSE duration

\* variant: a video of exactly 60 seconds is not a short
RECURSIVE Shorts_Under60(_)
Shorts_Under60(ids) ==
  IF Len(ids) = 0 THEN <<>>
  ELSE (IF parseDuration(DurationOrDefault(ContentDuration(Head(ids)))) < ShortSeconds
        THEN << Head(ids) >> ELSE <<>>) \o Shorts_Under60(Tail(ids))

\* lines 98-104: the ids of the items whose duration is at most 60 seconds
RECURSIVE Shorts(_)
Shorts(ids) ==
  IF Len(ids) = 0 THEN <<>>
  ELSE (IF parseDuration(DurationOrDefault(ContentDuration(Head(ids)))) <= ShortSeconds
        THEN << Head(ids) >> ELSE <<>>) \o Shorts(Tail(ids))

\* lines 80-112: the ids of a page that are shorts; failed holds the batches of
\* the page whose duration request fails, and any failure empties the result
filterShorts(videoIds, failed) ==
  IF failed \cap DOMAIN Batches(videoIds) # {} THEN <<>> ELSE Shorts(videoIds)

\* one page of the channel search: the outcome of the search request, the ids
\* it lists, and the batches whose duration request fails
Page(search, ids, filterFailed) ==
  [ search |-> search, ids |-> ids, filterFailed |-> filterFailed ]

\* paginations of the channel search; the last page carries no nextPageToken
ChannelPages ==
  { << Page("ok", <<>>, {}) >>,
    << Page("ok", <<"v1">>, {}) >>,
    << Page("ok", <<"v2", "v3">>, {}) >>,
    << Page("ok", <<"v1">>, {}), Page("ok", <<"v2">>, {}) >>,
    << Page("ok", <<"v1">>, {}), Page("ok", <<"v1">>, {}) >>,
    << Page("throw", <<>>, {}) >>,
    << Page("ok", <<"v1">>, {}), Page("throw", <<>>, {}) >>,
    << Page("ok", <<"v1">>, {1}) >> }

\* history: the page whose search request fails, 0 when none does
SearchFails(pages) ==
  IF \E i \in DOMAIN pages : pages[i].search = "throw"
  THEN CHOOSE i \in DOMAIN pages :
         pages[i].search = "throw" /\ \A j \in 1 .. (i - 1) : pages[j].search = "ok"
  ELSE 0

\* history: a duration request is made for a page and fails
FilterFails(pages) ==
  \E i \in DOMAIN pages :
    /\ \A j \in 1 .. i : pages[j].search = "ok"
    /\ Len(pages[i].ids) > 0
    /\ pages[i].filterFailed \cap DOMAIN Batches(pages[i].ids) # {}

\* result of a listing: thrown, or the ids collected
Listed(thrown, videoIds) == [ thrown |-> thrown, videoIds |-> videoIds ]

\* variant: a failing search request ends the pagination with the ids so far
RECURSIVE getAllShortsFromChannel_KeepsEarlierPages(_)
getAllShortsFromChannel_KeepsEarlierPages(pages) ==
  IF Len(pages) = 0 THEN Listed(FALSE, <<>>)
  ELSE IF Head(pages).search = "throw" THEN Listed(FALSE, <<>>)
  ELSE LET rest == getAllShortsFromChannel_KeepsEarlierPages(Tail(pages))
       IN  Listed(FALSE,
                  filterShorts(Head(pages).ids, Head(pages).filterFailed) \o rest.videoIds)

\* lines 40-75: the shorts of every page, or an exception when a search fails
RECURSIVE getAllShortsFromChannel(_)
getAllShortsFromChannel(pages) ==
  IF Len(pages) = 0 THEN Listed(FALSE, <<>>)
  ELSE IF Head(pages).search = "throw" THEN Listed(TRUE, <<>>)
  ELSE LET rest == getAllShortsFromChannel(Tail(pages))
       IN  IF rest.thrown THEN rest
           ELSE Listed(FALSE,
                       filterShorts(Head(pages).ids, Head(pages).filterFailed) \o rest.videoIds)

transformVideoData(video, now) ==
  LET views    == ParseCount(video.statistics.viewCount)
      likes    == ParseCount(video.statistics.likeCount)
      comments == ParseCount(video.statistics.commentCount)
      days     == (now - video.publishedAt) \div MsPerDay
  IN  [ video_id             |-> video.id,
        view_count           |-> views,
        like_count           |-> likes,
        comment_count        |-> comments,
        favorite_count       |-> ParseCount(video.statistics.favoriteCount),
        engagement_rate      |-> IF views > 0 THEN Rat(likes + comments, views) ELSE Null,
        views_per_day        |-> IF days > 0 THEN Rat(views, days) ELSE Rat(views, 1),
        days_since_published |-> days ]

\* the listing of every pagination
Listings == [ pages \in ChannelPages |-> getAllShortsFromChannel(pages) ]

\* ------------------------------------------------------------------ state
VARIABLES
  clock,                \* the latest reading of the wall clock, in milliseconds
  youtube_videos,       \* table youtube_videos: sequence of rows, in insertion order
  youtube_video_stats,  \* table youtube_video_stats: sequence of rows, in insertion order
  proc,                 \* per request: position in retrieveChannelShorts and its locals
  fetched,              \* number of detail records fetched so far
  statsMeta,            \* history: for each stats row, the run, the values it was built from
                        \* and the counts the run fetched
  video_embeddings,     \* table video_embeddings: set of rows
  generated,            \* number of embedding ids generated so far
  ereq,                 \* per embedding request: its handler, position and locals
  apiCall,              \* a call of a YouTubeService method: the method and its arguments
  apiReply              \* what the call returned, once it has

syncVars == << clock, youtube_videos, youtube_video_stats, proc, fetched, statsMeta >>
embVars  == << video_embeddings, generated, ereq >>
apiVars  == << apiCall, apiReply >>
vars     == << syncVars, embVars, apiVars >>

IdleProc ==
  [ pc |-> "idle", serial |-> 0, searchFailed |-> 0, filterFailed |-> FALSE,
    videoIds |-> <<>>, videos |-> <<>>, idx |-> 0,
    snapshotTimestamp |-> NullTime, videoData |-> Null, existingVideo |-> Null,
    previousStats |-> Null, seen |-> 0, fetchError |-> "none",
    videosInserted |-> 0, videosUpdated |-> 0, statsArchived |-> 0, errors |-> 0,
    response |-> Null,
    overlapped |-> FALSE, before |-> <<>>, events |-> <<>> ]

\* lines 527-531: the row inserted for a new video
InsertedRow(videoData, firstSyncedAt, lastSyncedAt) ==
  [ video_id             |-> videoData.video_id,
    view_count           |-> videoData.view_count,
    like_count           |-> videoData.like_count,
    comment_count        |-> videoData.comment_count,
    favorite_count       |-> videoData.favorite_count,
    engagement_rate      |-> videoData.engagement_rate,
    views_per_day        |-> videoData.views_per_day,
    days_since_published |-> videoData.days_since_published,
    first_synced_at      |-> firstSyncedAt,
    last_synced_at       |-> lastSyncedAt,
    sync_count           |-> DefaultSyncCount ]

Active(p) == p.pc \in {"lookup", "prevStats", "archive", "update", "insert"}

\* ---------------------------------------------------------- store queries
\* rows of youtube_videos with the given video_id
Matches(table, vid) == { i \in DOMAIN table : table[i].video_id = vid }

\* .select('*').eq('video_id', vid).single(): a row only when exactly one matches
SelectSingle(table, vid, out) ==
  IF out = "ok" /\ Cardinality(Matches(table, vid)) = 1
  THEN table[CHOOSE i \in Matches(table, vid) : TRUE]
  ELSE Null

\* rows .order('recorded_at', desc).limit(1) can return
Latest(table, vid) ==
  { i \in Matches(table, vid) :
      \A j \in Matches(table, vid) : table[j].recorded_at <= table[i].recorded_at }

\* .select('view_count, like_count, comment_count, recorded_at')
StatsColumns(row) ==
  [ view_count |-> row.view_count, like_count |-> row.like_count,
    comment_count |-> row.comment_count, recorded_at |-> row.recorded_at ]

\* the four counts of a video record, a fetched record or a stats row
Counts(x) == << x.view_count, x.like_count, x.comment_count, x.favorite_count >>

\* ------------------------------------------------------- the summary sent
Summary(p) ==
  [ success |-> TRUE, videosProcessed |-> Len(p.videos),
    videosInserted |-> p.videosInserted, videosUpdated |-> p.videosUpdated,
    statsArchived |-> p.statsArchived, errors |-> p.errors ]

EmptySummary == [ success |-> TRUE, videosProcessed |-> 0 ]

\* end of one iteration of the for loop: next record, or the response
Advance(p, ev) ==
  LET q == [p EXCEPT !.events = Append(@, ev), !.videoData = Null,
                     !.existingVideo = Null, !.previousStats = Null, !.seen = 0,
                     !.fetchError = "none"]
  IN  IF p.idx < Len(p.videos)
      THEN [q EXCEPT !.idx = @ + 1, !.pc = "lookup"]
      ELSE [q EXCEPT !.pc = "done", !.response = Summary(q)]

\* history: what happened to one record of the run
Event(p, existed, result) ==
  [ video_id |-> p.videos[p.idx], existed |-> existed, result |-> result,
    fetchError |-> p.fetchError ]

\* history: the columns of the table a run is compared against when it ends
BeforeColumns(table) ==
  [ i \in DOMAIN table |->
      [video_id |-> table[i].video_id, sync_count |-> table[i].sync_count] ]

\* --------------------------------------------------------------- actions
\* what `new Date()` can return: since the previous reading of the clock time
\* has stood still or moved on
Readings(last) == { t \in {last, last + 1} : t <= MaxClock }

\* lines 380-412: list the shorts, fetch their details, read the run timestamp;
\* budget is the number of detail records all runs together may fetch.  A run
\* that fetches no record answers without reading or writing the store: it is
\* taken at a moment when no other run is in its loop
Start(r, budget) ==
  /\ ~Active(proc[r])
  /\ \A o \in Runs : o < r => Active(proc[o])
  /\ \E pages \in ChannelPages, failed \in SUBSET {1}, now \in Readings(clock) :
       LET listed   == Listings[pages]
           listing  == IF listed.thrown THEN "throw" ELSE "ok"
           videoIds == listed.videoIds
           videos == getVideoDetails(videoIds, failed)
           overl  == \E o \in Runs \ {r} : Active(proc[o])
           p0     == [IdleProc EXCEPT !.serial = IF Len(videos) = 0 THEN 0 ELSE fetched + Len(videos),
                                      !.searchFailed = SearchFails(pages),
                                      !.filterFailed = FilterFails(pages),
                                      !.before = BeforeColumns(youtube_videos),
                                      !.overlapped = overl]
           p1     == IF listing = "throw"
                     THEN [p0 EXCEPT !.pc = "failed"]
                     ELSE IF Len(videoIds) = 0
                     THEN [p0 EXCEPT !.pc = "done", !.response = EmptySummary]
                     ELSE IF Len(videos) = 0
                     THEN [p0 EXCEPT !.pc = "done", !.videoIds = videoIds,
                                     !.snapshotTimestamp = now,
                                     !.response = Summary(p0)]
                     ELSE [p0 EXCEPT !.pc = "lookup", !.videoIds = videoIds,
                                     !.videos = videos, !.idx = 1,
                                     !.snapshotTimestamp = now]
       IN  /\ Len(videos) <= budget - fetched
           /\ (Len(videos) = 0 => \A o \in Runs : ~Active(proc[o]))
           /\ fetched' = fetched + Len(videos)
           /\ (listing = "throw" => videoIds = <<>> /\ failed = {})
           /\ (Len(videoIds) = 0 => failed = {} /\ now = clock)
           /\ clock' = now
           /\ proc' = [o \in Runs |->
                         IF o = r THEN p1
                         ELSE IF ~Active(proc[o]) THEN IdleProc
                         ELSE IF Active(p1) THEN [proc[o] EXCEPT !.overlapped = TRUE]
                         ELSE proc[o]]
  /\ UNCHANGED << youtube_videos, youtube_video_stats, statsMeta, embVars, apiVars >>

StartRun(r) == Start(r, MaxRecords)

\* line 424: the error of the lookup: none with a row, PGRST116 when the call
\* answers without a single row, another error when the store call fails
FetchError(existingVideo, out) ==
  IF out = "error" THEN "other"
  ELSE IF out = "ok" /\ existingVideo = Null THEN "PGRST116"
  ELSE "none"

\* variant: the row is read although the lookup returned an error
Lookup_IgnoresFetchError(r) ==
  LET p == proc[r] IN
  /\ p.pc = "lookup"
  /\ \E statistics \in RawStatistics(p.videos[p.idx]), out \in Outcomes :
       LET video     == [id |-> p.videos[p.idx], statistics |-> statistics,
                         publishedAt |-> PublishedAt(p.videos[p.idx])]
           videoData == transformVideoData(video, clock)
           existingVideo == SelectSingle(youtube_videos, videoData.video_id, "ok")
           q == [p EXCEPT !.videoData = videoData, !.existingVideo = existingVideo,
                          !.fetchError = IF out = "error" THEN "other" ELSE "none"]
       IN  proc' = [proc EXCEPT ![r] =
                      IF out = "throw"
                      THEN Advance([q EXCEPT !.errors = @ + 1], Event(q, FALSE, "error"))
                      ELSE IF existingVideo # Null
                      THEN [q EXCEPT !.pc = "prevStats"]
                      ELSE [q EXCEPT !.pc = "insert"]]
  /\ UNCHANGED << clock, youtube_videos, youtube_video_stats, fetched, statsMeta, embVars, apiVars >>

\* variant: a run waits at the lookup while another run is between its lookup
\* and its update of the same video
Lookup_WaitsForOtherRun(r) ==
  LET p == proc[r] IN
  /\ p.pc = "lookup"
  /\ \A o \in Runs \ {r} :
       ~( /\ proc[o].pc \in {"prevStats", "archive", "update"}
          /\ proc[o].videos[proc[o].idx] = p.videos[p.idx] )
  /\ \E statistics \in RawStatistics(p.videos[p.idx]), out \in Outcomes :
       LET video     == [id |-> p.videos[p.idx], statistics |-> statistics,
                         publishedAt |-> PublishedAt(p.videos[p.idx])]
           videoData == transformVideoData(video, clock)
           existingVideo == SelectSingle(youtube_videos, videoData.video_id, out)
           q == [p EXCEPT !.videoData = videoData, !.existingVideo = existingVideo,
                          !.fetchError = FetchError(existingVideo, out)]
       IN  proc' = [proc EXCEPT ![r] =
                      IF out = "throw"
                      THEN Advance([q EXCEPT !.errors = @ + 1], Event(q, FALSE, "error"))
                      ELSE IF existingVideo # Null
                      THEN [q EXCEPT !.pc = "prevStats"]
                      ELSE [q EXCEPT !.pc = "insert"]]
  /\ UNCHANGED << clock, youtube_videos, youtube_video_stats, fetched, statsMeta, embVars, apiVars >>

\* lines 416-434: transform the record and look the video up
Lookup(r) ==
  LET p == proc[r] IN
  /\ p.pc = "lookup"
  /\ \E statistics \in RawStatistics(p.videos[p.idx]), out \in Outcomes :
       LET video     == [id |-> p.videos[p.idx], statistics |-> statistics,
                         publishedAt |-> PublishedAt(p.videos[p.idx])]
           videoData == transformVideoData(video, clock)
           existingVideo == SelectSingle(youtube_videos, videoData.video_id, out)
           q == [p EXCEPT !.videoData = videoData, !.existingVideo = existingVideo,
                          !.fetchError = FetchError(existingVideo, out)]
       IN  proc' = [proc EXCEPT ![r] =
                      IF out = "throw"
                      THEN Advance([q EXCEPT !.errors = @ + 1], Event(q, FALSE, "error"))
                      ELSE IF existingVideo # Null
                      THEN [q EXCEPT !.pc = "prevStats"]
                      ELSE [q EXCEPT !.pc = "insert"]]
  /\ UNCHANGED << clock, youtube_videos, youtube_video_stats, fetched, statsMeta, embVars, apiVars >>

\* variant: the record is overwritten with the fetched counts before the stats
\* row is built
PrevStats_OverwritesFirst(r) ==
  LET p == proc[r] IN
  /\ p.pc = "prevStats"
  /\ youtube_videos' =
       [i \in DOMAIN youtube_videos |->
          IF youtube_videos[i].video_id = p.videoData.video_id
          THEN [youtube_videos[i] EXCEPT !.view_count = p.videoData.view_count,
                                         !.like_count = p.videoData.like_count,
                                         !.comment_count = p.videoData.comment_count,
                                         !.favorite_count = p.videoData.favorite_count]
          ELSE youtube_videos[i]]
  /\ \E out \in Outcomes :
       \/ /\ out = "throw"
          /\ proc' = [proc EXCEPT ![r] = [p EXCEPT !.pc = "update"]]
       \/ /\ out = "error" \/ Latest(youtube_video_stats, p.videoData.video_id) = {}
          /\ out # "throw"
          /\ proc' = [proc EXCEPT ![r] = [p EXCEPT !.pc = "archive", !.previousStats = Null,
                                                   !.seen = Len(youtube_video_stats)]]
       \/ /\ out = "ok"
          /\ \E i \in Latest(youtube_video_stats, p.videoData.video_id) :
               proc' = [proc EXCEPT ![r] =
                          [p EXCEPT !.pc = "archive",
                                    !.previousStats = StatsColumns(youtube_video_stats[i]),
                                    !.seen = Len(youtube_video_stats)]]
  /\ UNCHANGED << clock, youtube_video_stats, fetched, statsMeta, embVars, apiVars >>

\* lines 437-444: the most recent stats row of the video
PrevStats(r) ==
  LET p == proc[r] IN
  /\ p.pc = "prevStats"
  /\ \E out \in Outcomes :
       \/ /\ out = "throw"
          /\ proc' = [proc EXCEPT ![r] = [p EXCEPT !.pc = "update"]]
       \/ /\ out = "error" \/ Latest(youtube_video_stats, p.videoData.video_id) = {}
          /\ out # "throw"
          /\ proc' = [proc EXCEPT ![r] = [p EXCEPT !.pc = "archive", !.previousStats = Null,
                                                   !.seen = Len(youtube_video_stats)]]
       \/ /\ out = "ok"
          /\ \E i \in Latest(youtube_video_stats, p.videoData.video_id) :
               proc' = [proc EXCEPT ![r] =
                          [p EXCEPT !.pc = "archive",
                                    !.previousStats = StatsColumns(youtube_video_stats[i]),
                                    !.seen = Len(youtube_video_stats)]]
  /\ UNCHANGED << clock, youtube_videos, youtube_video_stats, fetched, statsMeta, embVars, apiVars >>

\* variant: the difference taken the wrong way round
Growth_Reversed(previousStats, current, previous) ==
  IF previousStats # Null THEN previous - current ELSE 0

\* lines 446-455
Growth(previousStats, current, previous) ==
  IF previousStats # Null THEN current - previous ELSE 0

\* variant: the elapsed-time guard admits zero
ViewsPerHour_NoGuard(previousStats, existingVideo, snapshotTimestamp, viewGrowth) ==
  IF previousStats # Null
  THEN LET timeDiffMs == snapshotTimestamp - previousStats.recorded_at
       IN  IF timeDiffMs >= 0
           THEN RatDiv(Rat(viewGrowth, 1), RatDiv(Rat(timeDiffMs, 1), Rat(MsPerHour, 1)))
           ELSE Null
  ELSE IF Truthy(existingVideo.views_per_day)
       THEN RatDiv(existingVideo.views_per_day, Rat(HoursPerDay, 1))
       ELSE Null

\* lines 457-468
ViewsPerHour(previousStats, existingVideo, snapshotTimestamp, viewGrowth) ==
  IF previousStats # Null
  THEN LET timeDiffMs == snapshotTimestamp - previousStats.recorded_at
       IN  IF timeDiffMs > 0
           THEN RatDiv(Rat(viewGrowth, 1), RatDiv(Rat(timeDiffMs, 1), Rat(MsPerHour, 1)))
           ELSE Null
  ELSE IF Truthy(existingVideo.views_per_day)
       THEN RatDiv(existingVideo.views_per_day, Rat(HoursPerDay, 1))
       ELSE Null

\* variant: the row is stamped with the time of the state it archives
StatsRow_StampedWithLastSync(existingVideo, previousStats, snapshotTimestamp) ==
  [ video_id       |-> existingVideo.video_id,
    recorded_at    |-> existingVideo.last_synced_at,
    view_count     |-> existingVideo.view_count,
    like_count     |-> existingVideo.like_count,
    comment_count  |-> existingVideo.comment_count,
    favorite_count |-> existingVideo.favorite_count,
    view_growth    |-> Growth(previousStats, existingVideo.view_count,
                              IF previousStats # Null THEN previousStats.view_count ELSE 0),
    like_growth    |-> Growth(previousStats, existingVideo.like_count,
                              IF previousStats # Null THEN previousStats.like_count ELSE 0),
    comment_growth |-> Growth(previousStats, existingVideo.comment_count,
                              IF previousStats # Null THEN previousStats.comment_count ELSE 0),
    engagement_rate |-> OrNull(existingVideo.engagement_rate),
    views_per_hour |-> ViewsPerHour(previousStats, existingVideo, snapshotTimestamp,
                                    Growth(previousStats, existingVideo.view_count,
                                           IF previousStats # Null THEN previousStats.view_count ELSE 0)),
    days_since_published |-> OrNull(Rat(existingVideo.days_since_published, 1)) ]

\* variant: the counts are taken from the prior snapshot when there is one
StatsRow_PriorCounts(existingVideo, previousStats, snapshotTimestamp) ==
  [ video_id       |-> existingVideo.video_id,
    recorded_at    |-> snapshotTimestamp,
    view_count     |-> IF previousStats # Null THEN previousStats.view_count
                       ELSE existingVideo.view_count,
    like_count     |-> IF previousStats # Null THEN previousStats.like_count
                       ELSE existingVideo.like_count,
    comment_count  |-> IF previousStats # Null THEN previousStats.comment_count
                       ELSE existingVideo.comment_count,
    favorite_count |-> existingVideo.favorite_count,
    view_growth    |-> Growth(previousStats, existingVideo.view_count,
                              IF previousStats # Null THEN previousStats.view_count ELSE 0),
    like_growth    |-> Growth(previousStats, existingVideo.like_count,
                              IF previousStats # Null THEN previousStats.like_count ELSE 0),
    comment_growth |-> Growth(previousStats, existingVideo.comment_count,
                              IF previousStats # Null THEN previousStats.comment_count ELSE 0),
    engagement_rate |-> OrNull(existingVideo.engagement_rate),
    views_per_hour |-> ViewsPerHour(previousStats, existingVideo, snapshotTimestamp,
                                    Growth(previousStats, existingVideo.view_count,
                                           IF previousStats # Null THEN previousStats.view_count ELSE 0)),
    days_since_published |-> OrNull(Rat(existingVideo.days_since_published, 1)) ]

\* lines 470-484
StatsRow(existingVideo, previousStats, snapshotTimestamp) ==
  LET viewGrowth == Growth(previousStats, existingVideo.view_count,
                           IF previousStats # Null THEN previousStats.view_count ELSE 0)
  IN  [ video_id       |-> existingVideo.video_id,
        recorded_at    |-> snapshotTimestamp,
        view_count     |-> existingVideo.view_count,
        like_count     |-> existingVideo.like_count,
        comment_count  |-> existingVideo.comment_count,
        favorite_count |-> existingVideo.favorite_count,
        view_growth    |-> viewGrowth,
        like_growth    |-> Growth(previousStats, existingVideo.like_count,
                                  IF previousStats # Null THEN previousStats.like_count ELSE 0),
        comment_growth |-> Growth(previousStats, existingVideo.comment_count,
                                  IF previousStats # Null THEN previousStats.comment_count ELSE 0),
        engagement_rate |-> OrNull(existingVideo.engagement_rate),
        views_per_hour |-> ViewsPerHour(previousStats, existingVideo, snapshotTimestamp, viewGrowth),
        days_since_published |-> OrNull(Rat(existingVideo.days_since_published, 1)) ]

\* variant: a failed stats insert ends the processing of the video
Archive_FailureSkipsUpdate(r) ==
  LET p == proc[r] IN
  /\ p.pc = "archive"
  /\ \E out \in Outcomes :
       IF out = "ok"
       THEN /\ youtube_video_stats' =
                 Append(youtube_video_stats,
                        StatsRow(p.existingVideo, p.previousStats, p.snapshotTimestamp))
            /\ statsMeta' = Append(statsMeta,
                                   [serial |-> p.serial, previousStats |-> p.previousStats,
                                    views_per_day |-> p.existingVideo.views_per_day,
                                    seen |-> p.seen,
                                    reported |-> Counts(p.videoData)])
            /\ proc' = [proc EXCEPT ![r] = [p EXCEPT !.pc = "update", !.statsArchived = @ + 1]]
       ELSE /\ proc' = [proc EXCEPT ![r] =
                          Advance([p EXCEPT !.errors = @ + 1], Event(p, TRUE, "error"))]
            /\ UNCHANGED << youtube_video_stats, statsMeta >>
  /\ UNCHANGED << clock, youtube_videos, fetched, embVars, apiVars >>

Archive_FailureCountsError(r) ==
  LET p == proc[r] IN
  /\ p.pc = "archive"
  /\ \E out \in Outcomes :
       IF out = "ok"
       THEN /\ youtube_video_stats' =
                 Append(youtube_video_stats,
                        StatsRow(p.existingVideo, p.previousStats, p.snapshotTimestamp))
            /\ statsMeta' = Append(statsMeta,
                                   [serial |-> p.serial, previousStats |-> p.previousStats,
                                    views_per_day |-> p.existingVideo.views_per_day,
                                    seen |-> p.seen,
                                    reported |-> Counts(p.videoData)])
            /\ proc' = [proc EXCEPT ![r] = [p EXCEPT !.pc = "update", !.statsArchived = @ + 1]]
       ELSE /\ proc' = [proc EXCEPT ![r] = [p EXCEPT !.pc = "update", !.errors = @ + 1]]
            /\ UNCHANGED << youtube_video_stats, statsMeta >>
  /\ UNCHANGED << clock, youtube_videos, fetched, embVars, apiVars >>

\* lines 446-501: build the stats row and insert it
Archive(r) ==
  LET p == proc[r] IN
  /\ p.pc = "archive"
  /\ \E out \in Outcomes :
       IF out = "ok"
       THEN /\ youtube_video_stats' =
                 Append(youtube_video_stats,
                        StatsRow(p.existingVideo, p.previousStats, p.snapshotTimestamp))
            /\ statsMeta' = Append(statsMeta,
                                   [serial |-> p.serial, previousStats |-> p.previousStats,
                                    views_per_day |-> p.existingVideo.views_per_day,
                                    seen |-> p.seen,
                                    reported |-> Counts(p.videoData)])
            /\ proc' = [proc EXCEPT ![r] = [p EXCEPT !.pc = "update", !.statsArchived = @ + 1]]
       ELSE /\ proc' = [proc EXCEPT ![r] = [p EXCEPT !.pc = "update"]]
            /\ UNCHANGED << youtube_video_stats, statsMeta >>
  /\ UNCHANGED << clock, youtube_videos, fetched, embVars, apiVars >>

\* variant: sync_count is written back without the increment
UpdatedRow_NoIncrement(row, videoData, currentSyncCount, lastSyncedAt) ==
  [ video_id             |-> videoData.video_id,
    view_count           |-> videoData.view_count,
    like_count           |-> videoData.like_count,
    comment_count        |-> videoData.comment_count,
    favorite_count       |-> videoData.favorite_count,
    engagement_rate      |-> videoData.engagement_rate,
    views_per_day        |-> videoData.views_per_day,
    days_since_published |-> videoData.days_since_published,
    first_synced_at      |-> row.first_synced_at,
    last_synced_at       |-> lastSyncedAt,
    sync_count           |-> currentSyncCount ]

\* variant: the update payload also carries first_synced_at
UpdatedRow_ResetsFirstSynced(row, videoData, currentSyncCount, lastSyncedAt) ==
  [ video_id             |-> videoData.video_id,
    view_count           |-> videoData.view_count,
    like_count           |-> videoData.like_count,
    comment_count        |-> videoData.comment_count,
    favorite_count       |-> videoData.favorite_count,
    engagement_rate      |-> videoData.engagement_rate,
    views_per_day        |-> videoData.views_per_day,
    days_since_published |-> videoData.days_since_published,
    first_synced_at      |-> lastSyncedAt,
    last_synced_at       |-> lastSyncedAt,
    sync_count           |-> currentSyncCount + 1 ]

\* variant: the update payload leaves last_synced_at out
UpdatedRow_KeepsLastSynced(row, videoData, currentSyncCount, lastSyncedAt) ==
  [ video_id             |-> videoData.video_id,
    view_count           |-> videoData.view_count,
    like_count           |-> videoData.like_count,
    comment_count        |-> videoData.comment_count,
    favorite_count       |-> videoData.favorite_count,
    engagement_rate      |-> videoData.engagement_rate,
    views_per_day        |-> videoData.views_per_day,
    days_since_published |-> videoData.days_since_published,
    first_synced_at      |-> row.first_synced_at,
    last_synced_at       |-> row.last_synced_at,
    sync_count           |-> currentSyncCount + 1 ]

\* lines 509-514: the row written over an existing one
UpdatedRow(row, videoData, currentSyncCount, lastSyncedAt) ==
  [ video_id             |-> videoData.video_id,
    view_count           |-> videoData.view_count,
    like_count           |-> videoData.like_count,
    comment_count        |-> videoData.comment_count,
    favorite_count       |-> videoData.favorite_count,
    engagement_rate      |-> videoData.engagement_rate,
    views_per_day        |-> videoData.views_per_day,
    days_since_published |-> videoData.days_since_published,
    first_synced_at      |-> row.first_synced_at,
    last_synced_at       |-> lastSyncedAt,
    sync_count           |-> currentSyncCount + 1 ]

\* line 504: existingVideo.sync_count || 1
CurrentSyncCount(existingVideo) ==
  IF existingVideo.sync_count # 0 THEN existingVideo.sync_count ELSE 1

\* variant: a failed update is logged but not counted
Update_ErrorUncounted(r) ==
  LET p == proc[r] IN
  /\ p.pc = "update"
  /\ \E out \in Outcomes, now \in Readings(clock) :
       /\ out # "ok" => now = clock
       /\ clock' = now
       /\ youtube_videos' =
            IF out = "ok"
            THEN [i \in DOMAIN youtube_videos |->
                    IF youtube_videos[i].video_id = p.videoData.video_id
                    THEN UpdatedRow(youtube_videos[i], p.videoData,
                                    CurrentSyncCount(p.existingVideo), now)
                    ELSE youtube_videos[i]]
            ELSE youtube_videos
       /\ proc' = [proc EXCEPT ![r] =
                     IF out = "ok"
                     THEN Advance([p EXCEPT !.videosUpdated = @ + 1],
                                  Event(p, TRUE, "updated"))
                     ELSE Advance(p, Event(p, TRUE, "error"))]
  /\ UNCHANGED << youtube_video_stats, fetched, statsMeta, embVars, apiVars >>

\* lines 503-522: overwrite the rows of the video
Update(r) ==
  LET p == proc[r] IN
  /\ p.pc = "update"
  /\ \E out \in Outcomes, now \in Readings(clock) :
       /\ out # "ok" => now = clock
       /\ clock' = now
       /\ youtube_videos' =
            IF out = "ok"
            THEN [i \in DOMAIN youtube_videos |->
                    IF youtube_videos[i].video_id = p.videoData.video_id
                    THEN UpdatedRow(youtube_videos[i], p.videoData,
                                    CurrentSyncCount(p.existingVideo), now)
                    ELSE youtube_videos[i]]
            ELSE youtube_videos
       /\ proc' = [proc EXCEPT ![r] =
                     IF out = "ok"
                     THEN Advance([p EXCEPT !.videosUpdated = @ + 1],
                                  Event(p, TRUE, "updated"))
                     ELSE Advance([p EXCEPT !.errors = @ + 1],
                                  Event(p, TRUE, "error"))]
  /\ UNCHANGED << youtube_video_stats, fetched, statsMeta, embVars, apiVars >>

\* variant: the insert branch archives the fetched counts as a first snapshot
Insert_AlsoArchives(r) ==
  LET p == proc[r] IN
  /\ p.pc = "insert"
  /\ \E out \in Outcomes, first \in Readings(clock) :
       \E last \in Readings(first) :
         /\ out # "ok" => last = clock
         /\ clock' = last
         /\ youtube_videos' =
              IF out = "ok"
              THEN Append(youtube_videos, InsertedRow(p.videoData, first, last))
              ELSE youtube_videos
         /\ youtube_video_stats' =
              IF out = "ok"
              THEN Append(youtube_video_stats,
                          StatsRow(InsertedRow(p.videoData, first, last), Null,
                                   p.snapshotTimestamp))
              ELSE youtube_video_stats
         /\ statsMeta' =
              IF out = "ok"
              THEN Append(statsMeta, [serial |-> p.serial, previousStats |-> Null,
                                      views_per_day |-> p.videoData.views_per_day,
                                      seen |-> Len(youtube_video_stats),
                                      reported |-> Counts(p.videoData)])
              ELSE statsMeta
         /\ proc' = [proc EXCEPT ![r] =
                       IF out = "ok"
                       THEN Advance([p EXCEPT !.videosInserted = @ + 1],
                                    Event(p, FALSE, "inserted"))
                       ELSE Advance([p EXCEPT !.errors = @ + 1],
                                    Event(p, FALSE, "error"))]
  /\ UNCHANGED << fetched, embVars, apiVars >>

\* lines 524-539: insert the new video
Insert(r) ==
  LET p == proc[r] IN
  /\ p.pc = "insert"
  /\ \E out \in Outcomes, first \in Readings(clock) :
       \E last \in Readings(first) :
         /\ out # "ok" => last = clock
         /\ clock' = last
         /\ youtube_videos' =
              IF out = "ok"
              THEN Append(youtube_videos, InsertedRow(p.videoData, first, last))
              ELSE youtube_videos
         /\ proc' = [proc EXCEPT ![r] =
                       IF out = "ok"
                       THEN Advance([p EXCEPT !.videosInserted = @ + 1],
                                    Event(p, FALSE, "inserted"))
                       ELSE Advance([p EXCEPT !.errors = @ + 1],
                                    Event(p, FALSE, "error"))]
  /\ UNCHANGED << youtube_video_stats, fetched, statsMeta, embVars, apiVars >>

\* ------------------------------------------------- script embeddings
\* video-embeddings.controller.ts: every handler is one request; a request
\* takes one step per await on the store, and requests interleave at the awaits

Requests    == {1, 2}           \* embedding requests that can be in flight together
SqlNull     == "NULL"           \* a NULL video_id or content field
Topics      == {SqlNull, "t1"}  \* values of the content field topic
EmbOutcomes == {"ok", "error"}  \* a store call answers, or returns an error result
Absent      == "ABSENT"         \* a field the request body does not carry
ForeignId   == MaxEmbeddings + 1  \* an id a client made up; 0 stands for no id

\* the identity fields a request body can carry beside its content: none, or
\* an id and a video_id of the client's choosing
Identities ==
  { [ id |-> 0, video_id |-> Absent ], [ id |-> ForeignId, video_id |-> "v2" ] }

IdleReq ==
  [ op |-> "none", pc |-> "idle", embedding_id |-> 0, video_id |-> SqlNull,
    topic |-> SqlNull, body |-> [ id |-> 0, video_id |-> Absent ], status |-> 0,
    created |-> FALSE, data |-> {}, released |-> SqlNull ]

EmbeddingRow(id, video_id, topic) == [ id |-> id, video_id |-> video_id, topic |-> topic ]

\* rows of video_embeddings with the given video_id
WithVideo(table, vid) == { e \in table : e.video_id = vid }

\* rows of video_embeddings with the given id
WithId(table, id) == { e \in table : e.id = id }

\* .from('video_embeddings').select(..).eq('video_id', vid).single(): the id of
\* the row when the call answers and exactly one row matches, else no data (0)
SingleEmbedding(table, vid, out) ==
  IF out = "ok" /\ Cardinality(WithVideo(table, vid)) = 1
  THEN (CHOOSE e \in WithVideo(table, vid) : TRUE).id
  ELSE 0

\* req.body of an update request: the content with the identity fields sent
updateData(rq) ==
  [ id |-> rq.body.id, video_id |-> rq.body.video_id, topic |-> rq.topic ]

fieldsToUpdate_KeepsVideoId(data) == [data EXCEPT !.id = 0]

\* lines 371, 722: const { id, video_id: _, ...fieldsToUpdate } = updateData
fieldsToUpdate(data) == [data EXCEPT !.id = 0, !.video_id = Absent]

\* a row with the fields that are present written over it
WithFields(e, fields) ==
  EmbeddingRow(IF fields.id = 0 THEN e.id ELSE fields.id,
               IF fields.video_id = Absent THEN e.video_id ELSE fields.video_id,
               fields.topic)

\* the table after .update(fields) on the rows in hit
UpdateFields(table, hit, fields) ==
  (table \ hit) \cup { WithFields(e, fields) : e \in hit }

SetVideo_ClearsContent(table, hit, vid) ==
  (table \ hit) \cup { EmbeddingRow(e.id, vid, SqlNull) : e \in hit }

\* the table after .update({ video_id }) on the rows in hit
SetVideo(table, hit, vid) ==
  (table \ hit) \cup { EmbeddingRow(e.id, vid, e.topic) : e \in hit }

\* a slot is free for a new request
Free(q) ==
  /\ ereq[q].pc \in {"idle", "done"}
  /\ \A o \in Requests : o < q => ereq[o].pc \notin {"idle", "done"}

\* the request table once slot q holds request rq: answered requests are forgotten
Accept(q, rq) ==
  [ o \in Requests |->
      IF o = q THEN rq ELSE IF ereq[o].pc = "done" THEN IdleReq ELSE ereq[o] ]

\* the request once answered: what is kept of it is the operation, the video
\* it named, the identity fields of its body and the status of the answer
Respond(rq, status) ==
  [rq EXCEPT !.pc = "done", !.status = status, !.embedding_id = 0, !.topic = SqlNull]

\* lines 250-262, 344-357, 652-665: verify the video exists, answer 404 if not
VerifyVideo(q, op, embedding_id, video_id, topic, identity, out) ==
  LET rq == [IdleReq EXCEPT !.op = op, !.embedding_id = embedding_id,
                            !.video_id = video_id, !.topic = topic,
                            !.body = identity]
  IN  /\ Free(q)
      /\ ereq' = Accept(q, IF SelectSingle(youtube_videos, video_id, out) = Null
                           THEN Respond(rq, 404)
                           ELSE [rq EXCEPT !.pc = "check"])
      /\ UNCHANGED << video_embeddings, generated, syncVars, apiVars >>

\* --- getOrCreateEmbedding, lines 234-321
getOrCreateEmbedding_Video(q) ==
  \E video_id \in VideoIds, out \in EmbOutcomes :
    VerifyVideo(q, "getOrCreate", 0, video_id, SqlNull, IdleReq.body, out)

\* lines 265-286: look for the embedding of the video
getOrCreateEmbedding_Fetch(q) ==
  LET rq == ereq[q] IN
  /\ rq.op = "getOrCreate" /\ rq.pc = "check"
  /\ \E out \in EmbOutcomes :
       LET existingEmbedding == SingleEmbedding(video_embeddings, rq.video_id, out)
       IN  ereq' = [ereq EXCEPT ![q] =
                      IF out = "error" THEN Respond(rq, 500)
                      ELSE IF existingEmbedding # 0
                      THEN Respond(rq, 200)
                      ELSE [rq EXCEPT !.pc = "insert"]]
  /\ UNCHANGED << video_embeddings, generated, syncVars, apiVars >>

\* lines 288-314: create the empty embedding of the video
getOrCreateEmbedding_Insert(q) ==
  LET rq == ereq[q] IN
  /\ rq.op = "getOrCreate" /\ rq.pc = "insert"
  /\ generated < MaxEmbeddings
  /\ generated' = generated + 1
  /\ \E out \in EmbOutcomes :
       IF out = "ok"
       THEN /\ video_embeddings' =
                 video_embeddings \cup { EmbeddingRow(generated + 1, rq.video_id, SqlNull) }
            /\ ereq' = [ereq EXCEPT ![q] = Respond([rq EXCEPT !.created = TRUE], 200)]
       ELSE /\ video_embeddings' = video_embeddings
            /\ ereq' = [ereq EXCEPT ![q] = Respond(rq, 500)]
  /\ UNCHANGED << syncVars, apiVars >>

\* --- updateEmbedding, lines 327-421
updateEmbedding_Video(q) ==
  \E video_id \in VideoIds, topic \in Topics, identity \in Identities,
     out \in EmbOutcomes :
    VerifyVideo(q, "update", 0, video_id, topic, identity, out)

\* lines 359-369: look for the embedding of the video
updateEmbedding_Fetch(q) ==
  LET rq == ereq[q] IN
  /\ rq.op = "update" /\ rq.pc = "check"
  /\ \E out \in EmbOutcomes :
       LET existingEmbedding == SingleEmbedding(video_embeddings, rq.video_id, out)
       IN  ereq' = [ereq EXCEPT ![q] =
                      IF out = "error" THEN Respond(rq, 500)
                      ELSE IF existingEmbedding # 0
                      THEN [rq EXCEPT !.pc = "update"]
                      ELSE [rq EXCEPT !.pc = "insert"]]
  /\ UNCHANGED << video_embeddings, generated, syncVars, apiVars >>

\* lines 374-392: update the rows of the video; the call asks for a single row,
\* and with several rows hit it fails with the update kept or rolled back
updateEmbedding_Update(q) ==
  LET rq  == ereq[q]
      hit == WithVideo(video_embeddings, rq.video_id)
  IN
  /\ rq.op = "update" /\ rq.pc = "update"
  /\ \E out \in EmbOutcomes, kept \in BOOLEAN :
       /\ (out = "error" \/ Cardinality(hit) <= 1) => kept
       /\ IF out = "ok" /\ Cardinality(hit) = 1
          THEN /\ video_embeddings' = UpdateFields(video_embeddings, hit, fieldsToUpdate(updateData(rq)))
               /\ ereq' = [ereq EXCEPT ![q] = Respond(rq, 200)]
          ELSE /\ video_embeddings' =
                    IF out = "ok" /\ kept THEN UpdateFields(video_embeddings, hit, fieldsToUpdate(updateData(rq)))
                    ELSE video_embeddings
               /\ ereq' = [ereq EXCEPT ![q] = Respond(rq, 500)]
  /\ UNCHANGED << generated, syncVars, apiVars >>

\* lines 393-416: create the embedding of the video from the request body
updateEmbedding_Insert(q) ==
  LET rq == ereq[q] IN
  /\ rq.op = "update" /\ rq.pc = "insert"
  /\ generated < MaxEmbeddings
  /\ generated' = generated + 1
  /\ \E out \in EmbOutcomes :
       IF out = "ok"
       THEN /\ video_embeddings' =
                 video_embeddings \cup
                   { WithFields(EmbeddingRow(generated + 1, rq.video_id, SqlNull),
                                fieldsToUpdate(updateData(rq))) }
            /\ ereq' = [ereq EXCEPT ![q] = Respond([rq EXCEPT !.created = TRUE], 200)]
       ELSE /\ video_embeddings' = video_embeddings
            /\ ereq' = [ereq EXCEPT ![q] = Respond(rq, 500)]
  /\ UNCHANGED << syncVars, apiVars >>

\* --- createUnassignedEmbedding, lines 575-617
createUnassignedEmbedding(q) ==
  /\ Free(q)
  /\ generated < MaxEmbeddings
  /\ generated' = generated + 1
  /\ \E topic \in Topics, out \in EmbOutcomes :
       LET rq == [IdleReq EXCEPT !.op = "create", !.topic = topic,
                                 !.embedding_id = generated + 1]
       IN  IF out = "ok"
           THEN /\ video_embeddings' =
                     video_embeddings \cup { EmbeddingRow(generated + 1, SqlNull, topic) }
                /\ ereq' = Accept(q, Respond(rq, 200))
           ELSE /\ video_embeddings' = video_embeddings
                /\ ereq' = Accept(q, Respond(rq, 500))
  /\ UNCHANGED << syncVars, apiVars >>

\* ids a request can name: the ids generated so far and one that names no row
EmbeddingIds == 1 .. MaxEmbeddings

\* --- assignVideoToEmbedding, lines 623-699
assignVideoToEmbedding_Video(q) ==
  \E embedding_id \in EmbeddingIds, video_id \in VideoIds, out \in EmbOutcomes :
    VerifyVideo(q, "assign", embedding_id, video_id, SqlNull, IdleReq.body, out)

\* lines 667-680: reject when another embedding holds the video; the error of
\* the lookup is not looked at
assignVideoToEmbedding_Check(q) ==
  LET rq == ereq[q] IN
  /\ rq.op = "assign" /\ rq.pc = "check"
  /\ \E out \in EmbOutcomes :
       LET existingEmbedding == SingleEmbedding(video_embeddings, rq.video_id, out)
       IN  ereq' = [ereq EXCEPT ![q] =
                      IF existingEmbedding # 0 /\ existingEmbedding # rq.embedding_id
                      THEN Respond(rq, 400)
                      ELSE [rq EXCEPT !.pc = "update"]]
  /\ UNCHANGED << video_embeddings, generated, syncVars, apiVars >>

\* lines 682-698: write the video_id into the row with the embedding id
assignVideoToEmbedding_Update(q) ==
  LET rq  == ereq[q]
      hit == WithId(video_embeddings, rq.embedding_id)
  IN
  /\ rq.op = "assign" /\ rq.pc = "update"
  /\ \E out \in EmbOutcomes :
       IF out = "ok" /\ hit # {}
       THEN /\ video_embeddings' = SetVideo(video_embeddings, hit, rq.video_id)
            /\ ereq' = [ereq EXCEPT ![q] = Respond(rq, 200)]
       ELSE /\ video_embeddings' = video_embeddings
            /\ ereq' = [ereq EXCEPT ![q] = Respond(rq, 500)]
  /\ UNCHANGED << generated, syncVars, apiVars >>

\* --- updateEmbeddingById, lines 705-745
updateEmbeddingById(q) ==
  /\ Free(q)
  /\ \E embedding_id \in EmbeddingIds, topic \in Topics, identity \in Identities,
        out \in EmbOutcomes :
       LET rq  == [IdleReq EXCEPT !.op = "updateById", !.embedding_id = embedding_id,
                                  !.topic = topic, !.body = identity]
           hit == WithId(video_embeddings, embedding_id)
       IN  IF out = "ok" /\ hit # {}
           THEN /\ video_embeddings' =
                     UpdateFields(video_embeddings, hit, fieldsToUpdate(updateData(rq)))
                /\ ereq' = Accept(q, Respond(rq, 200))
           ELSE /\ video_embeddings' = video_embeddings
                /\ ereq' = Accept(q, Respond(rq, 500))
  /\ UNCHANGED << generated, syncVars, apiVars >>

\* --- getAvailableVideos, lines 508-568
\* lines 536-552: the ids of the videos no embedding is assigned to
assignedVideoIds(table) == { e.video_id : e \in { x \in table : x.video_id # SqlNull } }

available(allVideos, table) == { v \in allVideos : v \notin assignedVideoIds(table) }

\* lines 515-530: read the video table
getAvailableVideos_Videos(q) ==
  /\ Free(q)
  /\ \E out \in EmbOutcomes :
       LET rq        == [IdleReq EXCEPT !.op = "available"]
           allVideos == { youtube_videos[i].video_id : i \in DOMAIN youtube_videos }
       IN  ereq' = Accept(q, IF out = "error" THEN Respond(rq, 500)
                             ELSE IF allVideos = {} THEN Respond(rq, 200)
                             ELSE [rq EXCEPT !.pc = "embeddings", !.data = allVideos])
  /\ UNCHANGED << video_embeddings, generated, syncVars, apiVars >>

\* lines 532-562: read the assigned video ids and answer with the other videos
getAvailableVideos_Embeddings(q) ==
  LET rq == ereq[q] IN
  /\ rq.op = "available" /\ rq.pc = "embeddings"
  /\ \E out \in EmbOutcomes :
       ereq' = [ereq EXCEPT ![q] =
                  IF out = "error" THEN Respond([rq EXCEPT !.data = {}], 500)
                  ELSE Respond([rq EXCEPT !.data = available(rq.data, video_embeddings)], 200)]
  /\ UNCHANGED << video_embeddings, generated, syncVars, apiVars >>

\* --- unassignVideoFromEmbedding, lines 751-788
\* released is history: the video_id the row had when it was unassigned
unassignVideoFromEmbedding(q) ==
  /\ Free(q)
  /\ \E embedding_id \in EmbeddingIds, out \in EmbOutcomes :
       LET rq  == [IdleReq EXCEPT !.op = "unassign", !.embedding_id = embedding_id]
           hit == WithId(video_embeddings, embedding_id)
       IN  IF out = "ok" /\ hit # {}
           THEN /\ video_embeddings' = SetVideo(video_embeddings, hit, SqlNull)
                /\ ereq' = Accept(q, Respond([rq EXCEPT !.released =
                                                (CHOOSE e \in hit : TRUE).video_id], 200))
           ELSE /\ video_embeddings' = video_embeddings
                /\ ereq' = Accept(q, Respond(rq, 500))
  /\ UNCHANGED << generated, syncVars, apiVars >>

\* --- deleteEmbedding, lines 794-827
deleteEmbedding(q) ==
  /\ Free(q)
  /\ \E embedding_id \in EmbeddingIds, out \in EmbOutcomes :
       LET rq == [IdleReq EXCEPT !.op = "delete", !.embedding_id = embedding_id]
       IN  IF out = "ok"
           THEN /\ video_embeddings' = video_embeddings \ WithId(video_embeddings, embedding_id)
                /\ ereq' = Accept(q, Respond(rq, 200))
           ELSE /\ video_embeddings' = video_embeddings
                /\ ereq' = Accept(q, Respond(rq, 500))
  /\ UNCHANGED << generated, syncVars, apiVars >>

\* ------------------------------------------------------------ initial state
\* the record fetched for video id with the given view count, transformed at time 0
Fetched(id, views) ==
  transformVideoData([id |-> id,
                      statistics |-> CHOOSE st \in RawStatistics(id) : st.viewCount = views,
                      publishedAt |-> PublishedAt(id)], 0)

\* stores that earlier runs, all at time 0, have left behind: nothing; v1
\* inserted; v1 inserted and then updated once, with its snapshot; v2 inserted
\* without statistics
PriorStores ==
  LET first == InsertedRow(Fetched("v1", 10), 0, 0) IN
  { [ videos |-> <<>>, stats |-> <<>>, meta |-> <<>> ],
    [ videos |-> << first >>, stats |-> <<>>, meta |-> <<>> ],
    [ videos |-> << UpdatedRow(first, Fetched("v1", 15), CurrentSyncCount(first), 0) >>,
      stats  |-> << StatsRow(first, Null, 0) >>,
      meta   |-> << [serial |-> 0, previousStats |-> Null,
                     views_per_day |-> first.views_per_day, seen |-> 0,
                     reported |-> Counts(Fetched("v1", 15))] >> ],
    [ videos |-> << InsertedRow(Fetched("v2", Missing), 0, 0) >>,
      stats |-> <<>>, meta |-> <<>> ] }

\* no embedding exists and no embedding request is in flight
NoEmbeddings ==
  /\ video_embeddings = {}
  /\ generated = 0
  /\ ereq = [q \in Requests |-> IdleReq]

\* the ids 1 .. n, in order
Numbered(n) == [ i \in 1 .. n |-> i ]

\* a call of a service method, and the reply of a call
Call(fn, videoIds, failed) == [ fn |-> fn, videoIds |-> videoIds, failed |-> failed ]
Reply(done, items) == [ done |-> done, items |-> items ]

\* no service method is called on its own
NoCalls ==
  /\ apiCall = Call("none", <<>>, {})
  /\ apiReply = Reply(FALSE, <<>>)

Init ==
  /\ clock = 0
  /\ \E store \in PriorStores :
       /\ youtube_videos = store.videos
       /\ youtube_video_stats = store.stats
       /\ statsMeta = store.meta
  /\ proc = [r \in Runs |-> IdleProc]
  /\ fetched = 0
  /\ NoEmbeddings
  /\ NoCalls

\* ------------------------------------------------------------ properties
\* number of occurrences of v in the sequence seq
Count(seq, v) == Cardinality({ i \in DOMAIN seq : seq[i] = v })

\* run r has returned its summary, ran alone, and no records were fetched since:
\* the tables are as the run left them
EndedAlone(r) ==
  /\ proc[r].pc = "done"
  /\ ~proc[r].overlapped
  /\ proc[r].serial = fetched
  /\ \A o \in Runs \ {r} : ~Active(proc[o])

\* stats rows appended by the run with the given serial number for video v
RowsBy(serial, v) ==
  { i \in DOMAIN youtube_video_stats :
      statsMeta[i].serial = serial /\ youtube_video_stats[i].video_id = v }

\* stats rows of the same video appended before row i
Earlier(i) ==
  { j \in 1 .. (i - 1) : youtube_video_stats[j].video_id = youtube_video_stats[i].video_id }

\* C1: a video that exists before a run that overlaps no other run, is fetched
\* once by it and is updated successfully has afterwards the sync_count it had
\* before plus exactly 1.
C1_SyncCountPlusOne ==
  \A r \in Runs :
    EndedAlone(r) =>
      \A k \in DOMAIN proc[r].events :
        LET v == proc[r].events[k].video_id IN
        ( /\ proc[r].events[k].result = "updated"
          /\ Count(proc[r].videos, v) = 1
          /\ Matches(proc[r].before, v) # {} )
        => /\ Matches(youtube_videos, v) # {}
           /\ \A i \in Matches(youtube_videos, v) :
                \A j \in Matches(proc[r].before, v) :
                  youtube_videos[i].sync_count = proc[r].before[j].sync_count + 1

C1_Witness ==
  \E r \in Runs :
    /\ EndedAlone(r)
    /\ \E k \in DOMAIN proc[r].events :
         /\ proc[r].events[k].result = "updated"
         /\ Count(proc[r].videos, proc[r].events[k].video_id) = 1
         /\ \E j \in Matches(proc[r].before, proc[r].events[k].video_id) :
              proc[r].before[j].sync_count = 2
         /\ \E i \in Matches(youtube_videos, proc[r].events[k].video_id) :
              youtube_videos[i].sync_count = 3

C3_LastSyncedIsRunTimestamp ==
  \A r \in Runs :
    EndedAlone(r) =>
      \A k \in DOMAIN proc[r].events :
        LET v == proc[r].events[k].video_id IN
        (proc[r].events[k].result = "updated" /\ Count(proc[r].videos, v) = 1)
        => \A i \in Matches(youtube_videos, v) :
             youtube_videos[i].last_synced_at = proc[r].snapshotTimestamp

\* C3 amended: after a run, last_synced_at of an updated video is the clock
\* reading of its update: not before the run timestamp, not after the end of
\* the run.
C3_LastSyncedWithinRun ==
  \A r \in Runs :
    EndedAlone(r) =>
      \A k \in DOMAIN proc[r].events :
        LET v == proc[r].events[k].video_id IN
        (proc[r].events[k].result = "updated" /\ Count(proc[r].videos, v) = 1)
        => /\ Matches(youtube_videos, v) # {}
           /\ \A i \in Matches(youtube_videos, v) :
                /\ proc[r].snapshotTimestamp <= youtube_videos[i].last_synced_at
                /\ youtube_videos[i].last_synced_at <= clock

C3_Witness ==
  \E r \in Runs :
    /\ EndedAlone(r)
    /\ \E k \in DOMAIN proc[r].events :
         /\ proc[r].events[k].result = "updated"
         /\ Count(proc[r].videos, proc[r].events[k].video_id) = 1
         /\ \E i \in Matches(youtube_videos, proc[r].events[k].video_id) :
              youtube_videos[i].last_synced_at > proc[r].snapshotTimestamp

\* C4 as stated: a video absent before a run and inserted by it has afterwards
\* exactly one record, with sync_count 1 and first_synced_at = last_synced_at,
\* and the run's videosInserted counts it.
C4_InsertedRecord ==
  \A r \in Runs :
    EndedAlone(r) =>
      \A k \in DOMAIN proc[r].events :
        LET v == proc[r].events[k].video_id IN
        ( /\ proc[r].events[k].result = "inserted"
          /\ Count(proc[r].videos, v) = 1
          /\ Matches(proc[r].before, v) = {} )
        => /\ Cardinality(Matches(youtube_videos, v)) = 1
           /\ \A i \in Matches(youtube_videos, v) :
                /\ youtube_videos[i].sync_count = 1
                /\ youtube_videos[i].first_synced_at = youtube_videos[i].last_synced_at
           /\ proc[r].response.videosInserted =
                Cardinality({ n \in DOMAIN proc[r].events :
                                proc[r].events[n].result = "inserted" })

\* C5 as stated: a run appends exactly one stats row for every video it
\* updates, stamped with the run timestamp.
C5_OneSnapshotPerUpdate ==
  \A r \in Runs :
    proc[r].pc = "done" =>
      \A k \in DOMAIN proc[r].events :
        LET v == proc[r].events[k].video_id IN
        (proc[r].events[k].result = "updated" /\ Count(proc[r].videos, v) = 1)
        => /\ Cardinality(RowsBy(proc[r].serial, v)) = 1
           /\ \A i \in RowsBy(proc[r].serial, v) :
                youtube_video_stats[i].recorded_at = proc[r].snapshotTimestamp

\* C5 amended: a run appends at most one stats row each time it processes an
\* existing video, one for every successful stats insert (statsArchived), and
\* every row it appends is stamped with the run timestamp.
C5_AtMostOneSnapshotPerUpdate ==
  \A r \in Runs :
    proc[r].serial > 0 =>
      /\ \A v \in VideoIds :
           /\ \A i \in RowsBy(proc[r].serial, v) :
                youtube_video_stats[i].recorded_at = proc[r].snapshotTimestamp
           /\ proc[r].pc = "done" =>
                Cardinality(RowsBy(proc[r].serial, v)) <=
                  Cardinality({ k \in DOMAIN proc[r].events :
                                  /\ proc[r].events[k].video_id = v
                                  /\ proc[r].events[k].existed })
      /\ Cardinality(UNION { RowsBy(proc[r].serial, v) : v \in VideoIds })
           = proc[r].statsArchived

C5_Witness ==
  \E r \in Runs :
    /\ proc[r].pc = "done"
    /\ clock > proc[r].snapshotTimestamp
    /\ \E k \in DOMAIN proc[r].events :
         /\ proc[r].events[k].result = "updated"
         /\ Count(proc[r].videos, proc[r].events[k].video_id) = 1
         /\ Cardinality(RowsBy(proc[r].serial, proc[r].events[k].video_id)) = 1

\* C6: the stats row appended for an existing video carries the counts read
\* from its VideoRecord, which for a run on its own are the counts the table
\* holds until the update; with no earlier stats row its view_growth is 0; and
\* a successful update leaves the fetched counts in the VideoRecord.
C6_SnapshotHoldsPreUpdateCounts ==
  [][ /\ \A r \in Runs :
           (proc[r].pc = "archive" /\ proc'[r].statsArchived = proc[r].statsArchived + 1)
           => /\ Len(youtube_video_stats') = Len(youtube_video_stats) + 1
              /\ LET row == youtube_video_stats'[Len(youtube_video_stats')] IN
                 /\ row.video_id = proc[r].videoData.video_id
                 /\ Counts(row) = Counts(proc[r].existingVideo)
                 /\ ~proc[r].overlapped =>
                      \A i \in Matches(youtube_videos, row.video_id) :
                        Counts(row) = Counts(youtube_videos[i])
                 /\ Matches(youtube_video_stats, row.video_id) = {} => row.view_growth = 0
      /\ \A r \in Runs :
           (proc[r].pc = "update" /\ proc'[r].videosUpdated = proc[r].videosUpdated + 1)
           => \A i \in Matches(youtube_videos', proc[r].videoData.video_id) :
                Counts(youtube_videos'[i]) = Counts(proc[r].videoData) ]_vars

C6_Witness ==
  \E i \in DOMAIN youtube_video_stats :
    /\ statsMeta[i].serial > 0
    /\ Earlier(i) = {}
    /\ youtube_video_stats[i].view_count = 10
    /\ youtube_video_stats[i].view_growth = 0
    /\ \E j \in Matches(youtube_videos, youtube_video_stats[i].video_id) :
         /\ youtube_videos[j].view_count = 15
         /\ youtube_videos[j].sync_count = 2

\* the growth fields of a stats row, and the differences of two rows' counts
Growths(row) == << row.view_growth, row.like_growth, row.comment_growth >>
Differences(row, prev) ==
  << row.view_count - prev.view_count, row.like_count - prev.like_count,
     row.comment_count - prev.comment_count >>

\* C7 as stated: the growth fields of every stats row are the differences to the
\* row of the same video with the greatest recorded_at among those written
\* before it, and 0 when no row of the video was written before it.
C7_GrowthAgainstPrecedingSnapshot ==
  \A i \in DOMAIN youtube_video_stats :
    IF Earlier(i) = {}
    THEN Growths(youtube_video_stats[i]) = << 0, 0, 0 >>
    ELSE \E j \in Earlier(i) :
           /\ \A k \in Earlier(i) :
                youtube_video_stats[k].recorded_at <= youtube_video_stats[j].recorded_at
           /\ Growths(youtube_video_stats[i])
                = Differences(youtube_video_stats[i], youtube_video_stats[j])

\* C7 amended: the growth fields are the differences to the row the run's
\* prior-snapshot lookup returned, a row of the same video with the greatest
\* recorded_at among those stored when the lookup ran, and 0 when the lookup
\* returned no row.
C7_GrowthAgainstLookedUpSnapshot ==
  \A i \in DOMAIN youtube_video_stats :
    LET row  == youtube_video_stats[i]
        prev == statsMeta[i].previousStats
        seen == { j \in Earlier(i) : j <= statsMeta[i].seen }
    IN  IF prev = Null
        THEN Growths(row) = << 0, 0, 0 >>
        ELSE /\ Growths(row) = Differences(row, prev)
             /\ \E j \in seen :
                  /\ StatsColumns(youtube_video_stats[j]) = prev
                  /\ \A k \in seen :
                       youtube_video_stats[k].recorded_at <= prev.recorded_at

C7_Witness ==
  \E i \in DOMAIN youtube_video_stats :
    /\ statsMeta[i].previousStats # Null
    /\ youtube_video_stats[i].view_growth # 0
    /\ youtube_video_stats[i].like_growth # 0
    /\ youtube_video_stats[i].comment_growth # 0

C9_FallbackViewsPerDay ==
  \A i \in DOMAIN youtube_video_stats :
    Earlier(i) = {} =>
      /\ youtube_video_stats[i].views_per_hour # Null
      /\ youtube_video_stats[i].views_per_hour.num * statsMeta[i].views_per_day.den * HoursPerDay
           = statsMeta[i].views_per_day.num * youtube_video_stats[i].views_per_hour.den

\* C10 as stated: a run whose channel listing is empty answers with a summary in
\* which videosProcessed, videosInserted and videosUpdated are all 0.
C10_EmptyChannelSummary ==
  \A r \in Runs :
    (proc[r].pc = "done" /\ proc[r].videoIds = <<>>) =>
      /\ proc[r].response # Null
      /\ "videosProcessed" \in DOMAIN proc[r].response
      /\ proc[r].response.videosProcessed = 0
      /\ "videosInserted" \in DOMAIN proc[r].response
      /\ proc[r].response.videosInserted = 0
      /\ "videosUpdated" \in DOMAIN proc[r].response
      /\ proc[r].response.videosUpdated = 0

\* run r took a step of its own: more than its overlap mark changed
Stepped(r) == [proc'[r] EXCEPT !.overlapped = proc[r].overlapped] # proc[r]

\* C11: a stats row is appended only by the archive step of a run that found
\* the video's record at lookup, one row at a time and for that video; the
\* insert step of a new video leaves the stats table alone, so a run on its
\* own that inserts a video absent before has appended no row for it.
C11_SnapshotOnlyForExisting ==
  /\ [][ /\ youtube_video_stats' # youtube_video_stats =>
               \E r \in Runs :
                 /\ proc[r].pc = "archive"
                 /\ proc'[r].pc = "update"
                 /\ proc[r].existingVideo # Null
                 /\ youtube_video_stats' =
                      Append(youtube_video_stats,
                             youtube_video_stats'[Len(youtube_video_stats')])
                 /\ youtube_video_stats'[Len(youtube_video_stats')].video_id
                      = proc[r].existingVideo.video_id
                 /\ Matches(youtube_videos, proc[r].existingVideo.video_id) # {}
          /\ \A q \in Runs :
               (proc[q].pc = "insert" /\ Stepped(q))
               => youtube_video_stats' = youtube_video_stats ]_vars
  /\ [](\A r \in Runs :
          EndedAlone(r) =>
            \A k \in DOMAIN proc[r].events :
              LET v == proc[r].events[k].video_id IN
              ( /\ proc[r].events[k].result = "inserted"
                /\ Count(proc[r].videos, v) = 1
                /\ Matches(proc[r].before, v) = {} )
              => Matches(youtube_video_stats, v) = {})

C11_Witness ==
  \E r \in Runs :
    /\ EndedAlone(r)
    /\ \E k \in DOMAIN proc[r].events :
         /\ proc[r].events[k].result = "inserted"
         /\ Matches(proc[r].before, proc[r].events[k].video_id) = {}
         /\ Matches(youtube_videos, proc[r].events[k].video_id) # {}
         /\ Matches(youtube_video_stats, proc[r].events[k].video_id) = {}

\* C12 as stated: the table youtube_videos never holds two rows with the same
\* video_id.
C12_OneRecordPerVideoId ==
  \A v \in VideoIds : Cardinality(Matches(youtube_videos, v)) <= 1

\* C15: after a failed prior-snapshot lookup or a failed stats insert the run
\* goes on to the update of the same video without counting an error, and an
\* update that succeeds is counted in videosUpdated.
C15_UpdateAfterFailedArchive ==
  [][ \A r \in Runs :
        /\ (proc[r].pc = "prevStats" /\ Stepped(r))
           => /\ proc'[r].pc \in {"archive", "update"}
              /\ proc'[r].idx = proc[r].idx
              /\ proc'[r].errors = proc[r].errors
        /\ (proc[r].pc = "archive" /\ Stepped(r))
           => /\ proc'[r].pc = "update"
              /\ proc'[r].idx = proc[r].idx
              /\ proc'[r].errors = proc[r].errors
              /\ proc'[r].existingVideo = proc[r].existingVideo
              /\ proc'[r].videoData = proc[r].videoData
        /\ (proc[r].pc = "update" /\ Stepped(r)
                                  /\ youtube_videos' # youtube_videos)
           => proc'[r].videosUpdated = proc[r].videosUpdated + 1 ]_vars

C15_Witness ==
  \E r \in Runs :
    /\ proc[r].pc = "done"
    /\ proc[r].videosUpdated = 1
    /\ proc[r].statsArchived = 0
    /\ proc[r].errors = 0
    /\ \E i \in DOMAIN youtube_videos : youtube_videos[i].last_synced_at > 0

C18_ArchiveFailureCounted ==
  [][ \A r \in Runs :
        ( /\ proc[r].pc = "archive"
          /\ proc'[r].pc = "update"
          /\ youtube_video_stats' = youtube_video_stats )
        => \/ proc'[r].errors = proc[r].errors + 1
           \/ proc'[r].statsArchived = proc[r].statsArchived + 1
           \/ proc'[r].videosUpdated = proc[r].videosUpdated + 1
           \/ proc'[r].videosInserted = proc[r].videosInserted + 1 ]_vars

\* C17: a run in whose pagination a search request fails, on the first page or
\* on a later one, ends failed: it answers with no summary, processes no
\* record, and its start leaves both tables as they were.
C17_SearchFailureFailsRun ==
  /\ [](\A r \in Runs :
          proc[r].searchFailed > 0 =>
            /\ proc[r].pc = "failed"
            /\ proc[r].response = Null
            /\ proc[r].videos = <<>>
            /\ proc[r].events = <<>>
            /\ proc[r].statsArchived = 0)
  /\ [][ \A r \in Runs :
           (proc'[r].searchFailed > 0 /\ Stepped(r))
           => /\ youtube_videos' = youtube_videos
              /\ youtube_video_stats' = youtube_video_stats
              /\ fetched' = fetched ]_vars

C17_Witness ==
  \E r \in Runs :
    /\ proc[r].searchFailed = 2
    /\ proc[r].pc = "failed"
    /\ youtube_videos # <<>>

\* C19 as stated: a run in whose listing a duration request of the shorts
\* filter fails ends failed and answers with no success summary.
C19_FilterFailureFailsRun ==
  \A r \in Runs :
    proc[r].filterFailed =>
      /\ proc[r].pc = "failed"
      /\ proc[r].response = Null

\* C20 as stated: every successful update writes into each row of the video a
\* sync_count strictly greater than the one the row held just before the write.
C20_SyncCountStrictlyIncreases ==
  [][ \A r \in Runs :
        (proc[r].pc = "update" /\ proc'[r].videosUpdated = proc[r].videosUpdated + 1)
        => \A i \in Matches(youtube_videos, proc[r].videoData.video_id) :
             youtube_videos'[i].sync_count > youtube_videos[i].sync_count ]_vars

\* C13: after any sequence of embedding operations, interleaved or not, at
\* most one row of video_embeddings has any given non-null video_id.
C13_OneEmbeddingPerVideo ==
  \A v \in VideoIds : Cardinality(WithVideo(video_embeddings, v)) <= 1

\* C14: an assignment of video V to embedding E whose check runs while another
\* embedding (id different from E) holds V is answered with the 400 rejection
\* and changes no embedding row.
C14_AssignRejectedWhenTaken ==
  [][ \A q \in Requests :
        ( /\ ereq[q].op = "assign"
          /\ ereq[q].pc = "check"
          /\ ereq'[q] # ereq[q]
          /\ \E e \in WithVideo(video_embeddings, ereq[q].video_id) :
               e.id # ereq[q].embedding_id )
        => ( /\ ereq'[q].pc = "done"
             /\ ereq'[q].status = 400
             /\ video_embeddings' = video_embeddings ) ]_vars

\* C21: nothing makes a run wait for another one: a run that has reached its
\* lookup, its prior-snapshot read or its stats insert can always take that
\* step; the row a run appends carries the counts of the record it read at
\* lookup and the growth against the snapshot it read, whatever other runs
\* have appended since.  So two overlapping runs can archive the same state.
C21_OverlappingRunsArchiveSameState ==
  /\ [](\A r \in Runs :
          /\ proc[r].pc = "lookup" => ENABLED Lookup(r)
          /\ proc[r].pc = "prevStats" => ENABLED PrevStats(r)
          /\ proc[r].pc = "archive" => ENABLED Archive(r))
  /\ [][ \A r \in Runs :
          (proc[r].pc = "archive" /\ proc'[r].statsArchived = proc[r].statsArchived + 1)
          => /\ Len(youtube_video_stats') = Len(youtube_video_stats) + 1
             /\ LET row  == youtube_video_stats'[Len(youtube_video_stats')]
                    prev == proc[r].previousStats
                IN  /\ Counts(row) = Counts(proc[r].existingVideo)
                    /\ Growths(row) = IF prev = Null THEN << 0, 0, 0 >>
                                      ELSE Differences(proc[r].existingVideo, prev) ]_vars

\* two runs that overlapped have each appended a row for v1 with the same
\* counts and the same growth, computed against the same earlier snapshot
C21_Witness ==
  \E i, j \in DOMAIN youtube_video_stats :
    /\ i < j
    /\ statsMeta[i].serial > 0
    /\ statsMeta[j].serial > statsMeta[i].serial
    /\ statsMeta[j].seen < i
    /\ youtube_video_stats[i].video_id = youtube_video_stats[j].video_id
    /\ Counts(youtube_video_stats[i]) = Counts(youtube_video_stats[j])
    /\ statsMeta[i].previousStats # Null
    /\ statsMeta[i].previousStats = statsMeta[j].previousStats
    /\ Growths(youtube_video_stats[i]) = Growths(youtube_video_stats[j])
    /\ Growths(youtube_video_stats[i]) # << 0, 0, 0 >>

\* the rows the first two runs of a behaviour, each fetching one record and
\* the second started after the first has ended, appended for the same video
\* when the platform reported the same counts to both
SuccessiveRows ==
  { ij \in (DOMAIN youtube_video_stats) \X (DOMAIN youtube_video_stats) :
      /\ \E r \in Runs : EndedAlone(r) /\ proc[r].serial = 2
      /\ statsMeta[ij[1]].serial = 1
      /\ statsMeta[ij[2]].serial = 2
      /\ youtube_video_stats[ij[1]].video_id = youtube_video_stats[ij[2]].video_id
      /\ statsMeta[ij[1]].reported = statsMeta[ij[2]].reported }

C23_InsertAttemptedBeforeUpdate ==
  [][ \A r \in Runs :
        (proc'[r].pc = "update" /\ proc[r].pc # "update") => proc[r].pc = "archive" ]_vars

\* C23 amended: a run reaches the update of an existing video only when its
\* archive attempt has ended: after the stats insert, whose outcome is then
\* known, or after the prior-snapshot read has thrown, in which case no insert
\* is attempted; until then the run leaves the video table alone, and a stored
\* record changes only by the update step of a run processing that video.
C23_UpdateAfterArchiveAttempt ==
  [][ /\ \A r \in Runs :
           /\ (proc'[r].pc = "update" /\ proc[r].pc # "update")
              => proc[r].pc \in {"prevStats", "archive"}
           /\ (proc[r].pc = "prevStats" /\ proc'[r].pc = "update")
              => youtube_video_stats' = youtube_video_stats
           /\ (proc[r].pc \in {"prevStats", "archive"} /\ Stepped(r))
              => youtube_videos' = youtube_videos
      /\ \A i \in DOMAIN youtube_videos :
           (i \in DOMAIN youtube_videos' /\ youtube_videos'[i] # youtube_videos[i])
           => \E r \in Runs :
                /\ proc[r].pc = "update"
                /\ Stepped(r)
                /\ proc[r].videoData.video_id = youtube_videos[i].video_id ]_vars

\* a run is about to update v1: its snapshot is in the stats table and the
\* record still holds the counts archived, not the counts fetched
C23_Witness ==
  \E r \in Runs :
    /\ proc[r].pc = "update"
    /\ proc[r].statsArchived = 1
    /\ Counts(proc[r].videoData) # Counts(proc[r].existingVideo)
    /\ \E i \in Matches(youtube_videos, proc[r].videoData.video_id) :
         /\ Counts(youtube_videos[i]) = Counts(proc[r].existingVideo)
         /\ \E j \in RowsBy(proc[r].serial, proc[r].videoData.video_id) :
              Counts(youtube_video_stats[j]) = Counts(youtube_videos[i])

\* the hours, minutes and seconds written in the duration string of each id;
\* a missing or unparseable string counts as 0 seconds
StatedComponents(id) ==
  CASE id = "v1" -> << 0, 0, 30 >>   [] id = "v2" -> << 0, 1, 0 >>
    [] id = "v3" -> << 0, 1, 1 >>    [] id = "d60" -> << 0, 0, 60 >>
    [] id = "d61" -> << 0, 0, 61 >>  [] id = "d253" -> << 0, 4, 13 >>
    [] id = "d3600" -> << 1, 0, 0 >> [] OTHER -> << 0, 0, 0 >>

StatedSeconds(id) ==
  StatedComponents(id)[1] * 3600 + StatedComponents(id)[2] * 60 + StatedComponents(id)[3]

AtMost60(id) == StatedSeconds(id) <= 60

\* C24: when its duration requests are answered, filterShorts returns exactly
\* the ids whose duration, hours * 3600 + minutes * 60 + seconds with absent
\* components counting as 0, is at most 60 seconds, in the order given: 60 is
\* kept, 61 is dropped, and a missing or unparseable duration is kept as 0.
C24_FilterKeepsAtMost60 ==
  ( /\ apiCall.fn = "filterShorts"
    /\ apiReply.done
    /\ apiCall.failed \cap DOMAIN Batches(apiCall.videoIds) = {} )
  => apiReply.items = SelectSeq(apiCall.videoIds, AtMost60)

C24_Witness ==
  /\ apiCall.fn = "filterShorts"
  /\ apiCall.videoIds = << "d60", "d61", "dDay" >>
  /\ apiCall.failed = {}
  /\ apiReply = Reply(TRUE, << "d60", "dDay" >>)

\* the request for the batch of the id at position i of the list is answered
InAnsweredBatch(i) == ((i - 1) \div 50) + 1 \notin apiCall.failed

\* C25: getVideoDetails asks for the ids in consecutive batches of at most 50
\* and returns, in order, the items of every batch whose request is answered:
\* a failing request costs its own batch only.
C25_FailedBatchSkipped ==
  (apiCall.fn = "getVideoDetails" /\ apiReply.done)
  => /\ \A b \in DOMAIN Batches(apiCall.videoIds) :
          /\ Len(Batches(apiCall.videoIds)[b]) <= 50
          /\ Len(Batches(apiCall.videoIds)[b]) > 0
     /\ Concat(Batches(apiCall.videoIds), {}, 1) = apiCall.videoIds
     /\ apiReply.items = SelectSeq(apiCall.videoIds, InAnsweredBatch)

\* 101 ids make three batches; the second request fails and the items of the
\* first and the third batch are returned
C25_Witness ==
  /\ apiCall.fn = "getVideoDetails"
  /\ Len(apiCall.videoIds) = 101
  /\ apiCall.failed = {2}
  /\ apiReply = Reply(TRUE, Numbered(50) \o << 101 >>)

\* the slot whose request took the step: the other slots stay or are cleared
Acting(q) == ereq'[q] # ereq[q] /\ ereq'[q].pc # "idle"

\* C26: a step of an update by video id or of an update by embedding id leaves
\* every existing embedding with its id and its video_id, whatever identity
\* fields the body carries; a step after which an existing embedding has
\* another video_id is a step of an assign or of an unassign request
C26_ContentEditKeepsIdentity ==
  [][\A q \in Requests :
       Acting(q) =>
         /\ ereq'[q].op \in {"update", "updateById"} =>
              \A e \in video_embeddings :
                \E f \in video_embeddings' : f.id = e.id /\ f.video_id = e.video_id
         /\ (\E e \in video_embeddings, f \in video_embeddings' :
               f.id = e.id /\ f.video_id # e.video_id) =>
              ereq'[q].op \in {"assign", "unassign"}]_vars

\* an update by video id whose body names a foreign id and another video was
\* answered 200, and the embedding it edited has the new content, its own id
\* and the video of the request
C26_Witness ==
  \E q \in Requests :
    /\ ereq[q].op = "update" /\ ereq[q].pc = "done" /\ ereq[q].status = 200
    /\ ~ereq[q].created
    /\ ereq[q].body.id = ForeignId /\ ereq[q].body.video_id = "v2"
    /\ ereq[q].video_id = "v1"
    /\ \E e \in video_embeddings :
         e.id # ForeignId /\ e.video_id = "v1" /\ e.topic = "t1"

\* C27: a get-or-create request creates a row only when no embedding has the
\* video of the request, and the row it creates is the empty row of that
\* video; when its lookup runs while one or more embeddings have the video
\* it does not go on to create one; for a video absent from the video table
\* it answers 404 and leaves the embeddings alone.
C27_GetOrCreateCreatesOnlyWhenNone ==
  [][\A q \in Requests :
       (Acting(q) /\ ereq'[q].op = "getOrCreate") =>
         LET held == WithVideo(video_embeddings, ereq'[q].video_id) IN
         /\ video_embeddings' # video_embeddings =>
              /\ held = {}
              /\ video_embeddings' =
                   video_embeddings \cup
                     { EmbeddingRow(generated + 1, ereq'[q].video_id, SqlNull) }
         /\ (ereq[q].pc = "check" /\ held # {}) =>
              (ereq'[q].pc = "done" /\ ~ereq'[q].created)
         /\ Matches(youtube_videos, ereq'[q].video_id) = {} =>
              /\ ereq'[q].pc = "done" /\ ereq'[q].status = 404
              /\ video_embeddings' = video_embeddings]_vars

\* the records of run r processed so far with the given result
Resulted(r, result) ==
  { k \in DOMAIN proc[r].events : proc[r].events[k].result = result }

\* C28: every record a run has processed has incremented exactly one of
\* videosInserted, videosUpdated and errors, so that at the end of a run that
\* reached the loop the three add up to videosProcessed; statsArchived is the
\* number of stats rows the run has appended, and it never exceeds the number
\* of records the run found to exist already.
C28_CountersPartitionProcessed ==
  \A r \in Runs :
    /\ proc[r].videosInserted = Cardinality(Resulted(r, "inserted"))
    /\ proc[r].videosUpdated = Cardinality(Resulted(r, "updated"))
    /\ proc[r].errors = Cardinality(Resulted(r, "error"))
    /\ \A k \in DOMAIN proc[r].events :
         proc[r].events[k].result \in {"inserted", "updated", "error"}
    /\ (proc[r].pc = "done" /\ proc[r].videos # <<>>) =>
         /\ proc[r].response.videosInserted + proc[r].response.videosUpdated
              + proc[r].response.errors = proc[r].response.videosProcessed
         /\ proc[r].response.statsArchived = proc[r].statsArchived
         /\ proc[r].response.statsArchived
              <= Cardinality({ k \in DOMAIN proc[r].events : proc[r].events[k].existed })
    /\ proc[r].serial > 0 =>
         proc[r].statsArchived =
           Cardinality({ i \in DOMAIN youtube_video_stats :
                           statsMeta[i].serial = proc[r].serial })

\* a run has ended whose only record existed already and was updated although
\* its snapshot was not archived: one counter moved, statsArchived did not
C28_Witness ==
  \E r \in Runs :
    /\ proc[r].pc = "done"
    /\ proc[r].response.videosProcessed = 1
    /\ proc[r].response.videosUpdated = 1
    /\ proc[r].response.errors = 0
    /\ proc[r].response.statsArchived = 0
    /\ proc[r].events[1].existed

\* C29: a lookup that returns an error other than not-found leaves the run
\* without a row: the run archives nothing and goes to the insert; the insert
\* step then either appends the fetched record and counts it as inserted, or
\* leaves the video table as it is and counts an error, and nothing else of
\* the summary moves.
C29_LookupErrorTreatedAsAbsent ==
  [][ \A r \in Runs :
        /\ (proc[r].pc = "lookup" /\ proc'[r].fetchError = "other") =>
             /\ proc'[r].pc = "insert"
             /\ proc'[r].existingVideo = Null
             /\ UNCHANGED << youtube_videos, youtube_video_stats >>
        /\ (proc[r].pc = "insert" /\ proc[r].fetchError = "other" /\ Stepped(r)) =>
             /\ proc'[r].pc \in {"lookup", "done"}
             /\ youtube_video_stats' = youtube_video_stats
             /\ proc'[r].statsArchived = proc[r].statsArchived
             /\ proc'[r].videosUpdated = proc[r].videosUpdated
             /\ \/ /\ proc'[r].videosInserted = proc[r].videosInserted + 1
                   /\ proc'[r].errors = proc[r].errors
                   /\ Len(youtube_videos') = Len(youtube_videos) + 1
                   /\ youtube_videos'[Len(youtube_videos')].video_id
                        = proc[r].videoData.video_id
                \/ /\ proc'[r].videosInserted = proc[r].videosInserted
                   /\ proc'[r].errors = proc[r].errors + 1
                   /\ youtube_videos' = youtube_videos ]_vars

\* the lookup of a stored video failed, and the run has ended with the record
\* counted as inserted and nothing archived
C29_Witness ==
  \E r \in Runs :
    /\ proc[r].pc = "done"
    /\ proc[r].events # <<>>
    /\ proc[r].events[1].fetchError = "other"
    /\ proc[r].events[1].result = "inserted"
    /\ proc[r].response.videosInserted = 1
    /\ proc[r].response.statsArchived = 0
    /\ Cardinality(Matches(youtube_videos, proc[r].events[1].video_id)) = 2

\* the embeddings once the row with the given id is unassigned
Unassigned(table, id) == SetVideo(table, WithId(table, id), SqlNull)

\* the videos of the video table
StoredVideoIds == { youtube_videos[i].video_id : i \in DOMAIN youtube_videos }

\* C30: when an assignment of video V to a pending embedding E is answered
\* 200, E holds V with its id and content as before, and unassigning E gives
\* back the embeddings as they were before the assignment: E pending, its id
\* and content unchanged; V, available before the assignment, is available
\* again, and the check of an assignment of V to another embedding finds no
\* holder.  An
\* unassignment answered 200 sets the video_id of its row to null and changes
\* nothing else.  The answer of available-videos lists the stored videos that
\* no embedding holds at the time of its read, so never a video some embedding
\* has as its video_id.
C30_AssignUnassignRoundTrip ==
  [][\A q \in Requests :
       Acting(q) =>
         /\ ( /\ ereq[q].op = "assign" /\ ereq[q].pc = "update"
              /\ ereq'[q].status = 200
              /\ \E e \in WithId(video_embeddings, ereq[q].embedding_id) :
                   e.video_id = SqlNull )
            => LET E == ereq[q].embedding_id
                   V == ereq[q].video_id
                   after == Unassigned(video_embeddings', E)
               IN  /\ \A e \in WithId(video_embeddings, E) :
                        EmbeddingRow(e.id, V, e.topic) \in video_embeddings'
                   /\ V \notin available(StoredVideoIds, video_embeddings')
                   /\ after = video_embeddings
                   /\ available(StoredVideoIds, after)
                        = available(StoredVideoIds, video_embeddings)
                   /\ V \in available(StoredVideoIds, video_embeddings)
                        => /\ V \in available(StoredVideoIds, after)
                           /\ SingleEmbedding(after, V, "ok") = 0
         /\ (ereq'[q].op = "unassign" /\ ereq'[q].status = 200)
            => \E id \in EmbeddingIds :
                 /\ WithId(video_embeddings, id) # {}
                 /\ video_embeddings' = Unassigned(video_embeddings, id)
                 /\ video_embeddings' =
                      (video_embeddings \ WithId(video_embeddings, id))
                        \cup { EmbeddingRow(e.id, SqlNull, e.topic) :
                                 e \in WithId(video_embeddings, id) }
         /\ (ereq'[q].op = "available" /\ ereq'[q].status = 200)
            => /\ ereq'[q].data = available(StoredVideoIds, video_embeddings)
               /\ \A v \in VideoIds :
                    /\ WithVideo(video_embeddings, v) # {} => v \notin ereq'[q].data
                    /\ (v \in StoredVideoIds /\ WithVideo(video_embeddings, v) = {})
                         => v \in ereq'[q].data]_vars

\* embedding holding v1 has been unassigned: it is pending again with its
\* content, no embedding holds v1, and available-videos, asked meanwhile and
\* answered after the unassignment, lists v1
C30_Witness ==
  \E q, o \in Requests :
    /\ ereq[q].op = "unassign" /\ ereq[q].pc = "done" /\ ereq[q].status = 200
    /\ ereq[q].released = "v1"
    /\ WithVideo(video_embeddings, "v1") = {}
    /\ \E e \in video_embeddings : e.video_id = SqlNull /\ e.topic = "t1"
    /\ ereq[o].op = "available" /\ ereq[o].pc = "done" /\ ereq[o].data = {"v1"}

Next ==
  \/ \E r \in Runs : StartRun(r)
  \/ \E r \in Runs : Lookup(r)
  \/ \E r \in Runs : PrevStats(r)
  \/ \E r \in Runs : Archive(r)
  \/ \E r \in Runs : Update(r)
  \/ \E r \in Runs : Insert(r)

Spec == Init /\ [][Next]_vars

\* ----------------------------------------------- two syncs of one video
\* the sync is requested again and again for a channel whose only short, v1,
\* has been inserted and updated once by earlier runs; the platform and the
\* video table answer every request, the stats table may fail
InitPair ==
  /\ clock = 0
  /\ \E store \in PriorStores :
       /\ Len(store.videos) = 1
       /\ store.videos[1].video_id = "v1"
       /\ Len(store.stats) = 1
       /\ youtube_videos = store.videos
       /\ youtube_video_stats = store.stats
       /\ statsMeta = store.meta
  /\ proc = [r \in Runs |-> IdleProc]
  /\ fetched = 0
  /\ NoEmbeddings
  /\ NoCalls

PairScenario ==
  \A r \in Runs :
    \/ proc[r].pc = "idle"
    \/ /\ proc[r].pc \in {"lookup", "prevStats", "archive", "update", "insert", "done"}
       /\ proc[r].videos = << "v1" >>
       /\ proc[r].errors = 0
       /\ ~proc[r].filterFailed

StartPair(r) == Start(r, MaxPairRecords)

NextPair ==
  \/ \E r \in Runs : StartPair(r) /\ PairScenario'
  \/ \E r \in Runs : Lookup(r) /\ PairScenario'
  \/ \E r \in Runs : PrevStats(r) /\ PairScenario'
  \/ \E r \in Runs : Archive(r) /\ PairScenario'
  \/ \E r \in Runs : Update(r) /\ PairScenario'
  \/ \E r \in Runs : Insert(r) /\ PairScenario'

SpecPair == InitPair /\ [][NextPair]_vars

\* ------------------------------------------------- embedding requests
\* the embedding handlers over a video table that holds one video and that no
\* sync run changes meanwhile
InitEmb ==
  /\ clock = 0
  /\ \E store \in PriorStores :
       /\ Len(store.videos) = 1
       /\ store.videos[1].video_id = "v1"
       /\ store.stats = <<>>
       /\ youtube_videos = store.videos
       /\ youtube_video_stats = store.stats
       /\ statsMeta = store.meta
  /\ proc = [r \in Runs |-> IdleProc]
  /\ fetched = 0
  /\ NoEmbeddings
  /\ NoCalls

NextEmb ==
  \/ \E q \in Requests : getOrCreateEmbedding_Video(q)
  \/ \E q \in Requests : getOrCreateEmbedding_Fetch(q)
  \/ \E q \in Requests : getOrCreateEmbedding_Insert(q)
  \/ \E q \in Requests : updateEmbedding_Video(q)
  \/ \E q \in Requests : updateEmbedding_Fetch(q)
  \/ \E q \in Requests : updateEmbedding_Update(q)
  \/ \E q \in Requests : updateEmbedding_Insert(q)
  \/ \E q \in Requests : createUnassignedEmbedding(q)
  \/ \E q \in Requests : assignVideoToEmbedding_Video(q)
  \/ \E q \in Requests : assignVideoToEmbedding_Check(q)
  \/ \E q \in Requests : assignVideoToEmbedding_Update(q)
  \/ \E q \in Requests : updateEmbeddingById(q)
  \/ \E q \in Requests : unassignVideoFromEmbedding(q)
  \/ \E q \in Requests : deleteEmbedding(q)
  \/ \E q \in Requests : getAvailableVideos_Videos(q)
  \/ \E q \in Requests : getAvailableVideos_Embeddings(q)

SpecEmb == InitEmb /\ [][NextEmb]_vars

\* ------------------------------------------------- service methods
\* filterShorts and getVideoDetails called on their own, once per behaviour,
\* with every list of ids and every set of failing requests within the bounds
DurationIds ==
  { "v1", "v2", "v3", "d60", "d61", "d253", "d3600", "dNone", "dEmpty", "dDay", "dPT" }

FilterCalls ==
  { Call("filterShorts", ids, failed) :
      ids \in UNION { [1 .. n -> DurationIds] : n \in 0 .. MaxItems },
      failed \in SUBSET {1} }

DetailCalls ==
  { Call("getVideoDetails", Numbered(n), failed) :
      n \in 0 .. MaxIds, failed \in SUBSET (1 .. 3) }

InitApi ==
  /\ clock = 0
  /\ youtube_videos = <<>>
  /\ youtube_video_stats = <<>>
  /\ statsMeta = <<>>
  /\ proc = [r \in Runs |-> IdleProc]
  /\ fetched = 0
  /\ NoEmbeddings
  /\ apiCall \in FilterCalls \/ apiCall \in DetailCalls
  /\ apiReply = Reply(FALSE, <<>>)

\* lines 80-112
CallFilterShorts ==
  /\ apiCall.fn = "filterShorts"
  /\ ~apiReply.done
  /\ apiReply' = Reply(TRUE, filterShorts(apiCall.videoIds, apiCall.failed))
  /\ UNCHANGED << apiCall, syncVars, embVars >>

\* lines 117-143
CallGetVideoDetails ==
  /\ apiCall.fn = "getVideoDetails"
  /\ ~apiReply.done
  /\ apiReply' = Reply(TRUE, getVideoDetails(apiCall.videoIds, apiCall.failed))
  /\ UNCHANGED << apiCall, syncVars, embVars >>

NextApi ==
  \/ CallFilterShorts
  \/ CallGetVideoDetails

SpecApi == InitApi /\ [][NextApi]_vars

====
